---- MODULE Spec2Model ----
(***************************************************************************)
(* kickstart command line driver (src/main.rs): variable resolution from   *)
(* a JSON input file (load_values_from_json_file) or from prompts and      *)
(* defaults (ask_questions), followed by the pre-generation hooks, the     *)
(* generation and the post-generation hooks (try_main).                    *)
(*                                                                         *)
(* One behaviour of the model is one run of try_main on the generation     *)
(* branch (cli.command = None).  The template, the command line flags, the *)
(* content of the input file, the answers typed at the prompts, the hook   *)
(* lists and the exit codes of the hooks are inputs.                       *)
(***************************************************************************)
EXTENDS Integers, Sequences, FiniteSets, TLC

(***************************************************************************)
(* Bounds of the model.                                                    *)
(***************************************************************************)
\* Largest number of variable declarations of a template.
MaxVars == 2
\* Largest number of hook files of one phase.
MaxHooks == 2

(***************************************************************************)
(* kickstart::Value: String(text) | Boolean(flag) | Integer(number).       *)
(***************************************************************************)
VString(s) == [t |-> "String", v |-> s]
VBoolean(b) == [t |-> "Boolean", v |-> b]
VInteger(i) == [t |-> "Integer", v |-> i]

\* The empty HashMap, and HashMap::insert.
EmptyMap == <<>>
\* (InsertLost: an insert whose value does not reach the map)
InsertLost(m, k, v) == m
Insert(m, k, v) == [x \in (DOMAIN m) \cup {k} |-> IF x = k THEN v ELSE m[x]]

(***************************************************************************)
(* serde_json::Value, as far as the match of load_values_from_json_file    *)
(* tells its shapes apart.  A Number is an integer that fits an i64        *)
(* (n.is_i64()), an integer above i64::MAX, or a float.                    *)
(***************************************************************************)
JString(s) == [j |-> "String", s |-> s]
JBool(b) == [j |-> "Bool", b |-> b]
JI64(i) == [j |-> "Number", n |-> "I64", i |-> i]
JU64Big == [j |-> "Number", n |-> "U64"]
JFloat == [j |-> "Number", n |-> "F64"]
JNull == [j |-> "Null"]
JArray == [j |-> "Array"]
JObject == [j |-> "Object"]

\* The values a key of the input document is given in the model.
JsonStrings == {"x"}
JsonValues ==
    {JString(s) : s \in JsonStrings} \cup {JBool(TRUE), JBool(FALSE), JI64(1)}
        \cup {JU64Big, JFloat, JNull, JArray, JObject}

(***************************************************************************)
(* The template: template.definition.variables, in declaration order.      *)
(* The name of a declaration is fixed by its position; names are unique.   *)
(***************************************************************************)
VarNames == <<"v1", "v2", "v3", "v4">>
\* A key of the input document that no declaration has.
UndeclaredKey == "zz"

NoCondition == [c |-> "none"]
\* only_if = { name, value }
OnlyIf(n, val) == [c |-> "only_if", name |-> n, value |-> val]
\* a condition whose evaluation fails
BadCondition == [c |-> "error"]

\* a literal default, and a default rendered from an earlier variable (the
\* declarations of the model that have one also have a validation pattern)
Literal(val) == [d |-> "literal", value |-> val]
Rendered(n) == [d |-> "rendered", name |-> n]

\* choices: Option<Vec<..>>
NoChoices == [some |-> FALSE]
SomeChoices(S) == [some |-> TRUE, of |-> S]

\* validation: Option<String>, a pattern, given by the strings it matches
NoValidation == [some |-> FALSE]
SomePattern(S) == [some |-> TRUE, matches |-> S]

PrevName(i) == IF i = 1 THEN "v0" ELSE VarNames[i - 1]

\* The declarations a template may hold at position i.
Declarations(i) ==
    LET D(cond, dflt, ch) ==
            [name |-> VarNames[i], only_if |-> cond, default |-> dflt, choices |-> ch,
             validation |-> IF dflt.d = "rendered" THEN SomePattern({"x"}) ELSE NoValidation]
    IN  { D(NoCondition, Literal(VString("a")), NoChoices),
          D(NoCondition, Literal(VString("a")), SomeChoices({"a", "b"})),
          D(NoCondition, Literal(VBoolean(FALSE)), NoChoices),
          D(NoCondition, Literal(VBoolean(TRUE)), NoChoices),
          D(OnlyIf(PrevName(i), VBoolean(TRUE)), Literal(VInteger(1)), NoChoices),
          D(NoCondition, Rendered(PrevName(i)), NoChoices),
          D(BadCondition, Literal(VString("a")), NoChoices) }

RECURSIVE TemplatesOfLen(_)
TemplatesOfLen(n) ==
    IF n = 0 THEN {<<>>}
    ELSE {Append(t, d) : t \in TemplatesOfLen(n - 1), d \in Declarations(n)}

Templates == UNION {TemplatesOfLen(n) : n \in 0..MaxVars}


(***************************************************************************)
(* The evaluator of the kickstart library (Template::should_ask_variable,  *)
(* Template::get_default_for).  Both are functions of the declaration and  *)
(* of the values resolved so far, and both may fail.                       *)
(***************************************************************************)
Ok(x) == [ok |-> TRUE, v |-> x]
Failure == [ok |-> FALSE]

should_ask_variable(var, vs) ==
    CASE var.only_if.c = "none" -> Ok(TRUE)
      [] var.only_if.c = "error" -> Failure
      [] var.only_if.c = "only_if" ->
            IF var.only_if.name \in DOMAIN vs
            THEN Ok(vs[var.only_if.name] = var.only_if.value)
            ELSE Ok(FALSE)

\* The text a value renders to inside a default expression.
IntText == <<"1", "2">>
Render(val) ==
    CASE val.t = "String" -> val.v
      [] val.t = "Boolean" -> IF val.v THEN "true" ELSE "false"
      [] val.t = "Integer" -> IntText[val.v]

get_default_for(var, vs) ==
    CASE var.default.d = "literal" -> Ok(var.default.value)
      [] var.default.d = "rendered" ->
            IF var.default.name \in DOMAIN vs
            THEN Ok(VString(Render(vs[var.default.name])))
            ELSE Failure

(***************************************************************************)
(* Records of what a run does: the calls made to the evaluator, the        *)
(* prompts issued, the warnings printed, and the error a run ends with.    *)
(***************************************************************************)
\* A call to the evaluator: the function, the declaration, the values it was
\* given and what it returned.
Call(fn, var, vs, res) == [fn |-> fn, name |-> var.name, vals |-> vs, result |-> res]
Warning(kind, n) == [kind |-> kind, name |-> n]
Error(kind, n) == [kind |-> kind, name |-> n]
NoName == ""

\* What one iteration of a resolution loop comes to.
Continue(vs, cs, ws, ps) ==
    [next |-> "continue", vals |-> vs, calls |-> cs, warnings |-> ws, prompts |-> ps]
Stop(e, cs, ws, ps) ==
    [next |-> "error", error |-> e, calls |-> cs, warnings |-> ws, prompts |-> ps]

(***************************************************************************)
(* load_values_from_json_file                                              *)
(***************************************************************************)
\* What the input file holds: no file, text that is no JSON, or a JSON value
\* (for an object, with the map of its keys).
NoFile == [f |-> "missing"]
InvalidJson == [f |-> "invalid"]
JsonRoot(kind, map) == [f |-> "json", root |-> kind, map |-> map]
NoMap == <<>>

Merge(a, b) == [x \in (DOMAIN a) \cup (DOMAIN b) |-> IF x \in DOMAIN a THEN a[x] ELSE b[x]]

\* The values the undeclared key is given in the model.
UndeclaredValues == {JString("x"), JNull}

\* The objects an input file may hold for a template: any of the declared
\* names and the undeclared key, each present or not.
Documents(vars) ==
    LET declared == {vars[i].name : i \in 1..Len(vars)}
        other == {NoMap} \cup {[k \in {UndeclaredKey} |-> v] : v \in UndeclaredValues}
    IN  UNION {{Merge(d, e) : d \in [K -> JsonValues], e \in other} : K \in SUBSET declared}

InputFiles(vars) ==
    {NoFile, InvalidJson}
        \cup {JsonRoot(k, NoMap) : k \in {"Array", "String", "Number", "Bool", "Null"}}
        \cup {JsonRoot("Object", m) : m \in Documents(vars)}

\* The match on root_value.
\* (AsObjectAnyRoot: a match that takes any root for an object)
AsObjectAnyRoot(root_value) == Ok(root_value.map)
AsObject(root_value) ==
    IF root_value.root = "Object" THEN Ok(root_value.map) ELSE Failure

\* The key is the name of a declaration.
\* (KnownAlways: a lookup that finds every key)
KnownAlways(vars, key) == TRUE
Known(vars, key) == \E i \in 1..Len(vars) : vars[i].name = key

\* The warnings of the loop over json_map.keys(), one per unknown key.
RECURSIVE SeqOfSet(_)
SeqOfSet(S) ==
    IF S = {} THEN <<>>
    ELSE LET x == CHOOSE y \in S : TRUE IN <<x>> \o SeqOfSet(S \ {x})

UnknownKeys(vars, jm) == {k \in DOMAIN jm : ~Known(vars, k)}

UnknownWarnings(vars, jm) ==
    LET ks == SeqOfSet(UnknownKeys(vars, jm))
    IN  [i \in 1..Len(ks) |-> Warning("unknown", ks[i])]

\* A Value written out as JSON (Value is serialized untagged), and a mapping
\* written out as a JSON object.
ToJson(val) ==
    CASE val.t = "String" -> JString(val.v)
      [] val.t = "Boolean" -> JBool(val.v)
      [] val.t = "Integer" -> JI64(val.v)
ToJsonMap(m) == [k \in DOMAIN m |-> ToJson(m[k])]

\* The match on json_value.
\* (FromJsonLenient: a match that coerces numbers and null instead of failing)
\* (FromJsonBoolAsText: a match that takes a bool for its text)
FromJsonBoolAsText(json_value) ==
    CASE json_value.j = "String" -> Ok(VString(json_value.s))
      [] json_value.j = "Bool" -> Ok(VString(IF json_value.b THEN "true" ELSE "false"))
      [] json_value.j = "Number" ->
            IF json_value.n = "I64" THEN Ok(VInteger(json_value.i))
            ELSE [ok |-> FALSE, kind |-> "not_integer"]
      [] json_value.j = "Null" -> [ok |-> FALSE, kind |-> "null"]
      [] json_value.j \in {"Array", "Object"} -> [ok |-> FALSE, kind |-> "nested"]
FromJsonLenient(json_value) ==
    CASE json_value.j = "String" -> Ok(VString(json_value.s))
      [] json_value.j = "Bool" -> Ok(VBoolean(json_value.b))
      [] json_value.j = "Number" ->
            IF json_value.n = "I64" THEN Ok(VInteger(json_value.i)) ELSE Ok(VInteger(1))
      [] json_value.j = "Null" -> Ok(VString(""))
      [] json_value.j \in {"Array", "Object"} -> [ok |-> FALSE, kind |-> "nested"]
FromJson(json_value) ==
    CASE json_value.j = "String" -> Ok(VString(json_value.s))
      [] json_value.j = "Bool" -> Ok(VBoolean(json_value.b))
      [] json_value.j = "Number" ->
            IF json_value.n = "I64" THEN Ok(VInteger(json_value.i))
            ELSE [ok |-> FALSE, kind |-> "not_integer"]
      [] json_value.j = "Null" -> [ok |-> FALSE, kind |-> "null"]
      [] json_value.j \in {"Array", "Object"} -> [ok |-> FALSE, kind |-> "nested"]

\* The only_if check: the variable is given in the input and does not apply.
\* (IgnoreSuppliedNever: the check left out)
IgnoreSuppliedNever(applies, var, jm) == FALSE
IgnoreSupplied(applies, var, jm) == ~applies /\ var.name \in DOMAIN jm

\* The variable is not given in the input and is required.
\* (RequiredMissingNever: the check left out)
RequiredMissingNever(applies, var, vs) == FALSE
RequiredMissing(applies, var, vs) == applies /\ var.name \notin DOMAIN vs

\* One iteration of the loop over template.definition.variables.
LoadVar(var, vs, jm) ==
    LET ask == should_ask_variable(var, vs)
        c1 == <<Call("should_ask_variable", var, vs, ask)>>
    IN  IF ~ask.ok THEN Stop(Error("evaluator", var.name), c1, <<>>, <<>>)
        ELSE IF IgnoreSupplied(ask.v, var, jm)
        THEN Continue(vs, c1, <<Warning("only_if", var.name)>>, <<>>)
        ELSE IF var.name \in DOMAIN jm
        THEN LET value == FromJson(jm[var.name])
             IN  IF value.ok
                 THEN Continue(Insert(vs, var.name, value.v), c1, <<>>, <<>>)
                 ELSE Stop(Error(value.kind, var.name), c1, <<>>, <<>>)
        ELSE LET again == should_ask_variable(var, vs)
                 c2 == c1 \o <<Call("should_ask_variable", var, vs, again)>>
             IN  IF ~again.ok THEN Stop(Error("evaluator", var.name), c2, <<>>, <<>>)
                 ELSE IF RequiredMissing(again.v, var, vs)
                 THEN Stop(Error("missing", var.name), c2, <<>>, <<>>)
                 ELSE Continue(vs, c2, <<>>, <<>>)

\* The whole loop from declaration i on, and what the function returns.
RECURSIVE LoadFrom(_, _, _, _)
LoadFrom(vars, jm, i, vs) ==
    IF i > Len(vars) THEN [ok |-> TRUE, vals |-> vs]
    ELSE LET r == LoadVar(vars[i], vs, jm)
         IN  IF r.next = "continue" THEN LoadFrom(vars, jm, i + 1, r.vals)
             ELSE [ok |-> FALSE, error |-> r.error]

(***************************************************************************)
(* ask_questions                                                           *)
(***************************************************************************)
\* What the prompt primitives of kickstart::cli::prompt may return: an answer
\* of the prompt's type, or a failure.
BoolAnswers == {TRUE, FALSE}
StringAnswers == {"a", "x"}
IntegerAnswers == {1, 2}

ask_choices(default, choices) == {Ok(VString(c)) : c \in choices} \cup {Failure}
ask_bool(b) == {Ok(a) : a \in BoolAnswers} \cup {Failure}
\* ask_string returns a string its validation pattern matches, if it has one.
ask_string(s, validation) ==
    {Ok(a) : a \in {x \in StringAnswers : validation.some => x \in validation.matches}}
        \cup {Failure}
ask_integer(i) == {Ok(a) : a \in IntegerAnswers} \cup {Failure}

\* A prompt: the primitive, the declaration it is for, the arguments it was
\* given beside the prompt text, and what it returned.
Prompt(fn, var, args, a) == [fn |-> fn, name |-> var.name, args |-> args, answer |-> a]

\* The declaration is answered from its choices.
\* (UsesChoicesNever: the choices are not looked at)
UsesChoicesNever(default, var) == FALSE
UsesChoices(default, var) == default.t = "String" /\ var.choices.some

\* The results `res` may take for a declaration and its default, each with
\* the prompts issued for it.
\* (AcquireAnyChoice: with no_input a choice is taken, not the default)
AcquireAnyChoice(var, default, no_input) ==
    IF UsesChoices(default, var)
    THEN IF no_input THEN {[res |-> Ok(VString(c)), prompts |-> <<>>] : c \in var.choices.of}
         ELSE {[res |-> a,
                prompts |-> <<Prompt("ask_choices", var, <<default, var.choices.of>>, a)>>] :
                 a \in ask_choices(default, var.choices.of)}
    ELSE CASE default.t = "Boolean" ->
                IF no_input THEN {[res |-> Ok(VBoolean(default.v)), prompts |-> <<>>]}
                ELSE {[res |-> IF a.ok THEN Ok(VBoolean(a.v)) ELSE a,
                       prompts |-> <<Prompt("ask_bool", var, <<default.v>>, a)>>] :
                         a \in ask_bool(default.v)}
           [] default.t = "String" ->
                IF no_input THEN {[res |-> Ok(VString(default.v)), prompts |-> <<>>]}
                ELSE {[res |-> IF a.ok THEN Ok(VString(a.v)) ELSE a,
                       prompts |-> <<Prompt("ask_string", var, <<default.v, var.validation>>, a)>>] :
                         a \in ask_string(default.v, var.validation)}
           [] default.t = "Integer" ->
                IF no_input THEN {[res |-> Ok(VInteger(default.v)), prompts |-> <<>>]}
                ELSE {[res |-> IF a.ok THEN Ok(VInteger(a.v)) ELSE a,
                       prompts |-> <<Prompt("ask_integer", var, <<default.v>>, a)>>] :
                         a \in ask_integer(default.v)}
\* (AcquireAsksBool: a Boolean is asked for whatever no_input is)
AcquireAsksBool(var, default, no_input) ==
    IF UsesChoices(default, var)
    THEN IF no_input THEN {[res |-> Ok(default), prompts |-> <<>>]}
         ELSE {[res |-> a,
                prompts |-> <<Prompt("ask_choices", var, <<default, var.choices.of>>, a)>>] :
                 a \in ask_choices(default, var.choices.of)}
    ELSE CASE default.t = "Boolean" ->
                IF FALSE THEN {[res |-> Ok(VBoolean(default.v)), prompts |-> <<>>]}
                ELSE {[res |-> IF a.ok THEN Ok(VBoolean(a.v)) ELSE a,
                       prompts |-> <<Prompt("ask_bool", var, <<default.v>>, a)>>] :
                         a \in ask_bool(default.v)}
           [] default.t = "String" ->
                IF no_input THEN {[res |-> Ok(VString(default.v)), prompts |-> <<>>]}
                ELSE {[res |-> IF a.ok THEN Ok(VString(a.v)) ELSE a,
                       prompts |-> <<Prompt("ask_string", var, <<default.v, var.validation>>, a)>>] :
                         a \in ask_string(default.v, var.validation)}
           [] default.t = "Integer" ->
                IF no_input THEN {[res |-> Ok(VInteger(default.v)), prompts |-> <<>>]}
                ELSE {[res |-> IF a.ok THEN Ok(VInteger(a.v)) ELSE a,
                       prompts |-> <<Prompt("ask_integer", var, <<default.v>>, a)>>] :
                         a \in ask_integer(default.v)}
Acquire(var, default, no_input) ==
    IF UsesChoices(default, var)
    THEN IF no_input THEN {[res |-> Ok(default), prompts |-> <<>>]}
         ELSE {[res |-> a,
                prompts |-> <<Prompt("ask_choices", var, <<default, var.choices.of>>, a)>>] :
                 a \in ask_choices(default, var.choices.of)}
    ELSE CASE default.t = "Boolean" ->
                IF no_input THEN {[res |-> Ok(VBoolean(default.v)), prompts |-> <<>>]}
                ELSE {[res |-> IF a.ok THEN Ok(VBoolean(a.v)) ELSE a,
                       prompts |-> <<Prompt("ask_bool", var, <<default.v>>, a)>>] :
                         a \in ask_bool(default.v)}
           [] default.t = "String" ->
                IF no_input THEN {[res |-> Ok(VString(default.v)), prompts |-> <<>>]}
                ELSE {[res |-> IF a.ok THEN Ok(VString(a.v)) ELSE a,
                       prompts |-> <<Prompt("ask_string", var, <<default.v, var.validation>>, a)>>] :
                         a \in ask_string(default.v, var.validation)}
           [] default.t = "Integer" ->
                IF no_input THEN {[res |-> Ok(VInteger(default.v)), prompts |-> <<>>]}
                ELSE {[res |-> IF a.ok THEN Ok(VInteger(a.v)) ELSE a,
                       prompts |-> <<Prompt("ask_integer", var, <<default.v>>, a)>>] :
                         a \in ask_integer(default.v)}

\* One iteration of the loop over template.definition.variables: every
\* outcome it may have.
\* (AskVarKeepsDefault: the default is inserted, not the answer)
AskVarKeepsDefault(var, vs, no_input) ==
    LET ask == should_ask_variable(var, vs)
        c1 == <<Call("should_ask_variable", var, vs, ask)>>
    IN  IF ~ask.ok THEN {Stop(Error("evaluator", var.name), c1, <<>>, <<>>)}
        ELSE IF ~ask.v THEN {Continue(vs, c1, <<>>, <<>>)}
        ELSE LET default == get_default_for(var, vs)
                 c2 == c1 \o <<Call("get_default_for", var, vs, default)>>
             IN  IF ~default.ok THEN {Stop(Error("evaluator", var.name), c2, <<>>, <<>>)}
                 ELSE {IF a.res.ok
                       THEN Continue(Insert(vs, var.name, default.v), c2, <<>>, a.prompts)
                       ELSE Stop(Error("prompt", var.name), c2, <<>>, a.prompts) :
                         a \in Acquire(var, default.v, no_input)}
AskVar(var, vs, no_input) ==
    LET ask == should_ask_variable(var, vs)
        c1 == <<Call("should_ask_variable", var, vs, ask)>>
    IN  IF ~ask.ok THEN {Stop(Error("evaluator", var.name), c1, <<>>, <<>>)}
        ELSE IF ~ask.v THEN {Continue(vs, c1, <<>>, <<>>)}
        ELSE LET default == get_default_for(var, vs)
                 c2 == c1 \o <<Call("get_default_for", var, vs, default)>>
             IN  IF ~default.ok THEN {Stop(Error("evaluator", var.name), c2, <<>>, <<>>)}
                 ELSE {IF a.res.ok
                       THEN Continue(Insert(vs, var.name, a.res.v), c2, <<>>, a.prompts)
                       ELSE Stop(Error("prompt", var.name), c2, <<>>, a.prompts) :
                         a \in Acquire(var, default.v, no_input)}

\* The whole loop from declaration i on: every result ask_questions may have.
RECURSIVE AskAll(_, _, _, _)
AskAll(decls, i, vs, no_input) ==
    IF i > Len(decls) THEN {[ok |-> TRUE, vals |-> vs]}
    ELSE UNION {IF r.next = "continue" THEN AskAll(decls, i + 1, r.vals, no_input)
                ELSE {[ok |-> FALSE, error |-> r.error]} :
                  r \in AskVar(decls[i], vs, no_input)}

(***************************************************************************)
(* The state of a run.                                                     *)
(***************************************************************************)
VARIABLES
    variables,   \* template.definition.variables
    cli,         \* the flags: input_file (given or not), no_input, run_hooks
                 \* (--run-hooks is an input of the step that first reads it)
    pc,          \* where try_main is
    entered,     \* the resolution functions try_main has called, in order
    input,       \* what the input file was found to hold
    json_map,    \* load_values_from_json_file: the parsed object
    vals,        \* the mapping being resolved, then the one returned
    idx,         \* how many declarations the resolution loop has gone through
    pre_gen_hooks,   \* template.get_pre_gen_hooks()
    post_gen_hooks,  \* template.get_post_gen_hooks()
    hk,          \* how many hooks of the running phase have been executed
    outcome,     \* how the run ended: still running, Ok(()) or the error
    calls,       \* calls made to the evaluator, in order
    prompts,     \* prompts issued, in order
    warnings,    \* terminal::warning calls, in order
    printed,     \* the banners and hook names printed, in order
    spawned,     \* the hook processes started, each with how it ended
    generated    \* how many times template.generate was invoked

vars ==
    <<variables, cli, pc, entered, input, json_map, vals, idx, pre_gen_hooks, post_gen_hooks,
      hk, outcome, calls, prompts, warnings, printed, spawned, generated>>

Running == [state |-> "running"]
Succeeded == [state |-> "ok"]
Failed(e) == [state |-> "error", error |-> e]

NotRead == [f |-> "not_read"]
\* cli.run_hooks: try_main reads it first when it has the pre-generation
\* hooks; the run does not depend on it before, and its value is fixed then.
NotYetRead == [read |-> FALSE]
Flag(b) == [read |-> TRUE, v |-> b]
\* What the run keeps of the file once it is read: its shape.
Shape(file) == IF file.f = "json" THEN [f |-> "json", root |-> file.root] ELSE file

Init ==
    /\ variables \in Templates
    /\ cli \in [input_file : BOOLEAN, no_input : BOOLEAN, run_hooks : {NotYetRead}]
    /\ pc = "resolve"
    /\ entered = <<>>
    /\ input = NotRead
    /\ json_map = NoMap
    /\ vals = EmptyMap
    /\ idx = 0
    /\ pre_gen_hooks = <<>>
    /\ post_gen_hooks = <<>>
    /\ hk = 0
    /\ outcome = Running
    /\ calls = <<>>
    /\ prompts = <<>>
    /\ warnings = <<>>
    /\ printed = <<>>
    /\ spawned = <<>>
    /\ generated = 0

\* An error returned by try_main: the run is over.
Bail(e) ==
    /\ pc' = "exit"
    /\ outcome' = Failed(e)


(***************************************************************************)
(* try_main: the choice of the input source                                *)
(***************************************************************************)
\* --input-file together with --no-input
\* (ConflictNever: the check left out)
ConflictNever(c) == FALSE
Conflict(c) == c.input_file /\ c.no_input

ModeConflict ==
    /\ pc = "resolve"
    /\ Conflict(cli)
    /\ Bail(Error("conflict", NoName))
    /\ UNCHANGED <<variables, entered, cli, input, json_map, vals, idx, pre_gen_hooks,
                   post_gen_hooks, hk, calls, prompts, warnings, printed, spawned,
                   generated>>

\* load_values_from_json_file up to its loop over the declarations: the file
\* is read and parsed, its root is matched, unknown keys are warned about.
LoadJsonOpen ==
    /\ pc = "resolve"
    /\ cli.input_file /\ ~Conflict(cli)
    /\ entered' = Append(entered, "load_values_from_json_file")
    /\ \E file \in InputFiles(variables) :
         /\ input' = Shape(file)
         /\ IF file.f = "missing"
            THEN /\ Bail(Error("no_input_file", NoName))
                 /\ UNCHANGED <<json_map, warnings>>
            ELSE IF file.f = "invalid"
            THEN /\ Bail(Error("invalid_json", NoName))
                 /\ UNCHANGED <<json_map, warnings>>
            ELSE IF ~AsObject(file).ok
            THEN /\ Bail(Error("not_object", NoName))
                 /\ UNCHANGED <<json_map, warnings>>
            ELSE /\ json_map' = AsObject(file).v
                 /\ warnings' = warnings \o UnknownWarnings(variables, AsObject(file).v)
                 /\ pc' = "load_json"
                 /\ UNCHANGED outcome
    /\ UNCHANGED <<variables, cli, vals, idx, pre_gen_hooks, post_gen_hooks, hk,
                   calls, prompts, printed, spawned, generated>>

\* for var in &template.definition.variables: the declaration taken after i
\* of them have been gone through.
\* (NextVarReversed: the declarations taken last to first)
NextVarReversed(decls, i) == decls[Len(decls) - i]
NextVar(decls, i) == decls[i + 1]

\* What an iteration of a resolution loop does to the state.
\* (IterateSkipsErrors: a failed iteration is skipped and the loop goes on)
IterateSkipsErrors(r) ==
    /\ calls' = calls \o r.calls
    /\ warnings' = warnings \o r.warnings
    /\ prompts' = prompts \o r.prompts
    /\ vals' = IF r.next = "continue" THEN r.vals ELSE vals
    /\ idx' = idx + 1
    /\ UNCHANGED <<pc, outcome>>
Iterate(r) ==
    /\ calls' = calls \o r.calls
    /\ warnings' = warnings \o r.warnings
    /\ prompts' = prompts \o r.prompts
    /\ IF r.next = "continue"
       THEN /\ vals' = r.vals
            /\ idx' = idx + 1
            /\ UNCHANGED <<pc, outcome>>
       ELSE /\ Bail(r.error)
            /\ UNCHANGED <<vals, idx>>

\* load_values_from_json_file: one iteration of the loop over the declarations
LoadJsonVar ==
    /\ pc = "load_json"
    /\ idx < Len(variables)
    /\ Iterate(LoadVar(NextVar(variables, idx), vals, json_map))
    /\ UNCHANGED <<variables, entered, cli, input, json_map, pre_gen_hooks, post_gen_hooks,
                   hk, printed, spawned, generated>>

\* load_values_from_json_file: Ok(vals)
LoadJsonReturn ==
    /\ pc = "load_json"
    /\ idx = Len(variables)
    /\ pc' = "resolved"
    /\ UNCHANGED <<variables, entered, cli, input, json_map, vals, idx, pre_gen_hooks,
                   post_gen_hooks, hk, outcome, calls, prompts, warnings, printed,
                   spawned, generated>>

\* ask_questions is entered
AskBegin ==
    /\ pc = "resolve"
    /\ ~cli.input_file
    /\ entered' = Append(entered, "ask_questions")
    /\ pc' = "ask"
    /\ vals' = EmptyMap
    /\ UNCHANGED <<variables, cli, input, json_map, idx, pre_gen_hooks,
                   post_gen_hooks, hk, outcome, calls, prompts, warnings, printed,
                   spawned, generated>>

\* ask_questions: one iteration of the loop over the declarations
AskNext ==
    /\ pc = "ask"
    /\ idx < Len(variables)
    /\ \E r \in AskVar(NextVar(variables, idx), vals, cli.no_input) : Iterate(r)
    /\ UNCHANGED <<variables, entered, cli, input, json_map, pre_gen_hooks, post_gen_hooks,
                   hk, printed, spawned, generated>>

\* ask_questions: Ok(vals)
AskReturn ==
    /\ pc = "ask"
    /\ idx = Len(variables)
    /\ pc' = "resolved"
    /\ UNCHANGED <<variables, entered, cli, input, json_map, vals, idx, pre_gen_hooks,
                   post_gen_hooks, hk, outcome, calls, prompts, warnings, printed,
                   spawned, generated>>

(***************************************************************************)
(* try_main: set_variables, the hooks and the generation                   *)
(***************************************************************************)
\* template.set_variables(vals)?: the mapping moves into the template.  The
\* locals of the resolution are gone, and what the resolution was seen to do
\* is not followed further.
SetVariables ==
    /\ pc = "resolved"
    /\ \E ok \in BOOLEAN :
         IF ok THEN pc' = "pre_gen" /\ UNCHANGED outcome
         ELSE Bail(Error("set_variables", NoName))
    /\ vals' = EmptyMap
    /\ json_map' = NoMap
    /\ calls' = <<>>
    /\ prompts' = <<>>
    /\ warnings' = <<>>
    /\ UNCHANGED <<variables, entered, cli, input, idx, pre_gen_hooks, post_gen_hooks, hk,
                   printed, spawned, generated>>

\* The hook files a phase may have, in order; the names are distinct.
HookNames == <<"h1", "h2", "h3", "h4">>
HookFile(phase, i) == [phase |-> phase, name |-> HookNames[i]]
HookLists(phase) == {[i \in 1..n |-> HookFile(phase, i)] : n \in 0..MaxHooks}

\* How the child process of a hook may end: exit code 0, another exit code,
\* or no process at all (command.status() fails).
HookStatuses == {"zero", "nonzero", "spawn_error"}

\* The condition under which a phase runs its hooks.
\* (RunsHooksAlways: run_hooks is not looked at)
RunsHooksAlways(run_hooks, list) == list # <<>>
RunsHooks(run_hooks, list) == run_hooks /\ list # <<>>

\* execute_hook: what it prints, and what it returns for a status.
\* (execute_hook_any_code: the exit code is not looked at)
execute_hook_any_code(hook, status) ==
    [printed |-> <<hook.name>>,
     result |-> IF status = "spawn_error"
                THEN [ok |-> FALSE, error |-> Error("hook_spawn", NoName)]
                ELSE Ok(TRUE)]
execute_hook(hook, status) ==
    [printed |-> <<hook.name>>,
     result |-> CASE status = "zero" -> Ok(TRUE)
                  [] status = "nonzero" -> [ok |-> FALSE, error |-> Error("hook_exit", hook.name)]
                  [] status = "spawn_error" -> [ok |-> FALSE, error |-> Error("hook_spawn", NoName)]]

\* One iteration of a loop over a hook list.
RunHook(list, phase_pc) ==
    /\ pc = phase_pc
    /\ hk < Len(list)
    /\ \E status \in HookStatuses :
         LET r == execute_hook(list[hk + 1], status)
         IN  /\ printed' = printed \o r.printed
             /\ spawned' = Append(spawned, [hook |-> list[hk + 1], status |-> status])
             /\ IF r.result.ok
                THEN hk' = hk + 1 /\ UNCHANGED <<pc, outcome>>
                ELSE Bail(r.result.error) /\ UNCHANGED hk
    /\ UNCHANGED <<variables, entered, cli, input, json_map, vals, idx, pre_gen_hooks,
                   post_gen_hooks, calls, prompts, warnings, generated>>

\* 2. run pre-gen hooks: the list is fetched
PreGenHooks ==
    /\ pc = "pre_gen"
    /\ \/ /\ Bail(Error("get_hooks", NoName))
          /\ UNCHANGED <<cli, pre_gen_hooks, hk, printed>>
       \/ \E list \in HookLists("pre"), run_hooks \in BOOLEAN :
            /\ pre_gen_hooks' = list
            /\ hk' = 0
            /\ cli' = [cli EXCEPT !.run_hooks = Flag(run_hooks)]
            /\ IF RunsHooks(run_hooks, list)
               THEN /\ printed' = Append(printed, "Running pre-gen hooks...")
                    /\ pc' = "pre_hooks"
               ELSE /\ pc' = "generate"
                    /\ UNCHANGED printed
            /\ UNCHANGED outcome
    /\ UNCHANGED <<variables, entered, input, json_map, vals, idx, post_gen_hooks,
                   calls, prompts, warnings, spawned, generated>>

PreHook == RunHook(pre_gen_hooks, "pre_hooks")

\* (PreHooksDoneEarly: the loop over the pre-generation hooks may be left
\* before its end)
PreHooksDoneEarly ==
    /\ pc = "pre_hooks"
    /\ printed' = Append(printed, "")
    /\ pc' = "generate"
    /\ UNCHANGED <<variables, entered, cli, input, json_map, vals, idx, pre_gen_hooks,
                   post_gen_hooks, hk, outcome, calls, prompts, warnings, spawned,
                   generated>>
PreHooksDone ==
    /\ pc = "pre_hooks"
    /\ hk = Len(pre_gen_hooks)
    /\ printed' = Append(printed, "")
    /\ pc' = "generate"
    /\ UNCHANGED <<variables, entered, cli, input, json_map, vals, idx, pre_gen_hooks,
                   post_gen_hooks, hk, outcome, calls, prompts, warnings, spawned,
                   generated>>

\* 3. generate
Generate ==
    /\ pc = "generate"
    /\ generated' = generated + 1
    /\ \E ok \in BOOLEAN :
         IF ok THEN pc' = "post_gen" /\ UNCHANGED outcome
         ELSE Bail(Error("generate", NoName))
    /\ UNCHANGED <<variables, entered, cli, input, json_map, vals, idx, pre_gen_hooks,
                   post_gen_hooks, hk, calls, prompts, warnings, printed, spawned>>

\* try_main returns Ok(())
Done ==
    /\ pc' = "exit"
    /\ outcome' = Succeeded

\* 4. run post-gen hooks: the list is fetched
PostGenHooks ==
    /\ pc = "post_gen"
    /\ \/ /\ Bail(Error("get_hooks", NoName))
          /\ UNCHANGED <<post_gen_hooks, hk, printed>>
       \/ \E list \in HookLists("post") :
            /\ post_gen_hooks' = list
            /\ hk' = 0
            /\ IF RunsHooks(cli.run_hooks.v, list)
               THEN /\ printed' = Append(printed, "Running post-gen hooks...")
                    /\ pc' = "post_hooks"
                    /\ UNCHANGED outcome
               ELSE /\ printed' = Append(printed, "Everything done, ready to go!")
                    /\ Done
    /\ UNCHANGED <<variables, entered, cli, input, json_map, vals, idx, pre_gen_hooks,
                   calls, prompts, warnings, spawned, generated>>

PostHook == RunHook(post_gen_hooks, "post_hooks")

PostHooksDone ==
    /\ pc = "post_hooks"
    /\ hk = Len(post_gen_hooks)
    /\ printed' = printed \o <<"", "Everything done, ready to go!">>
    /\ Done
    /\ UNCHANGED <<variables, entered, cli, input, json_map, vals, idx, pre_gen_hooks,
                   post_gen_hooks, hk, calls, prompts, warnings, spawned, generated>>

Next ==
    \/ ModeConflict
    \/ LoadJsonOpen
    \/ LoadJsonVar
    \/ LoadJsonReturn
    \/ AskBegin
    \/ AskNext
    \/ AskReturn
    \/ SetVariables
    \/ PreGenHooks
    \/ PreHook
    \/ PreHooksDone
    \/ Generate
    \/ PostGenHooks
    \/ PostHook
    \/ PostHooksDone

Spec == Init /\ [][Next]_vars

(***************************************************************************)
(* Properties                                                              *)
(***************************************************************************)
\* The position of the declaration of a name.
Position(n) == CHOOSE i \in 1..Len(variables) : variables[i].name = n
NamesBefore(i) == {variables[k].name : k \in 1..(i - 1)}
Restrict(m, S) == [x \in (DOMAIN m) \cap S |-> m[x]]

\* Resolution has returned a mapping (to try_main, which has yet to use it).
Returned == pc = "resolved"

\* The first call made for the declaration at position i, which is the call
\* to should_ask_variable that judges it; 0 when it has not been processed.
JudgedAt(i) ==
    IF \E k \in 1..Len(calls) : calls[k].name = variables[i].name
    THEN CHOOSE k \in 1..Len(calls) :
            /\ calls[k].name = variables[i].name
            /\ \A l \in 1..(k - 1) : calls[l].name # variables[i].name
    ELSE 0
Processed(i) == JudgedAt(i) # 0
JudgedApplicable(i) == Processed(i) /\ calls[JudgedAt(i)].result = Ok(TRUE)
JudgedInapplicable(i) == Processed(i) /\ calls[JudgedAt(i)].result = Ok(FALSE)

\* C1: whenever resolution returns a mapping, from the prompts, the defaults
\* or the JSON file, the keys of the mapping are exactly the names of the
\* declarations that should_ask_variable judged applicable when they were
\* processed.
C1_KeysAreTheApplicable ==
    Returned =>
        /\ \A i \in 1..Len(variables) : Processed(i)
        /\ DOMAIN vals = {variables[i].name : i \in {p \in 1..Len(variables) : JudgedApplicable(p)}}

\* A mapping returned from a JSON file that gave a value for a declaration
\* judged inapplicable and for an undeclared key, beside an applicable one.
C1_Witness ==
    /\ Returned
    /\ cli.input_file
    /\ UndeclaredKey \in DOMAIN json_map
    /\ \E i \in 1..Len(variables) :
          JudgedInapplicable(i) /\ variables[i].name \in DOMAIN json_map
    /\ \E i \in 1..Len(variables) : JudgedApplicable(i)

\* C2: in both resolution loops the declarations are processed in
\* declaration order without a gap, and every call to the evaluator for the
\* declaration at position i is given exactly the values resolved for the
\* declarations before i: no key of position i or later, and for every
\* earlier declaration that was resolved the value it keeps to the end.
C2_OrderingContract ==
    /\ \A k \in 1..Len(calls) :
          LET i == Position(calls[k].name)
          IN  /\ i <= idx + 1
              /\ i = idx + 1 => pc = "exit"
              /\ DOMAIN calls[k].vals \subseteq NamesBefore(i)
              /\ calls[k].vals = Restrict(vals, NamesBefore(i))
    /\ \A k, l \in 1..Len(calls) :
          k < l => Position(calls[k].name) <= Position(calls[l].name)
    /\ \A i \in 1..Len(variables) :
          (i <= idx /\ pc \in {"load_json", "ask", "resolved"}) => Processed(i)

\* A later declaration was judged on the value resolved for an earlier one.
C2_Witness ==
    /\ Returned
    /\ \E k \in 1..Len(calls) :
          /\ Position(calls[k].name) = 2
          /\ calls[k].fn = "get_default_for"
          /\ DOMAIN calls[k].vals = {variables[1].name}

\* load_values_from_json_file is in its loop, has returned its mapping, or
\* has returned an error from its loop: json_map is the object of the file.
LoadErrors == {"evaluator", "missing", "not_integer", "null", "nested"}
InLoad ==
    /\ cli.input_file
    /\ input = [f |-> "json", root |-> "Object"]
    /\ \/ pc \in {"load_json", "resolved"}
       \/ pc = "exit" /\ outcome.state = "error" /\ outcome.error.kind \in LoadErrors

DeclaredNames == {variables[i].name : i \in 1..Len(variables)}
Count(seq, x) == Cardinality({k \in 1..Len(seq) : seq[k] = x})

\* C3: in a returned mapping every declaration judged applicable has a value
\* of the variant of the default the evaluator computes for it from the
\* values resolved before it, and a declaration judged inapplicable has no
\* entry; whatever the input source.
C3_TypeOfDefault ==
    Returned =>
        \A i \in 1..Len(variables) :
            LET var == variables[i]
                default == get_default_for(var, Restrict(vals, NamesBefore(i)))
            IN  /\ JudgedApplicable(i) =>
                      /\ var.name \in DOMAIN vals
                      /\ default.ok => vals[var.name].t = default.v.t
                /\ JudgedInapplicable(i) => var.name \notin DOMAIN vals

\* C4: in JSON mode, a declaration that applies and has no key in the
\* document makes load_values_from_json_file fail with the
\* missing-required-variable error naming it: no default is computed, no
\* entry is made, no mapping is returned and no later declaration is
\* processed.
C4_MissingRequiredFails ==
    InLoad =>
        \A i \in 1..Len(variables) :
            (JudgedApplicable(i) /\ variables[i].name \notin DOMAIN json_map) =>
                /\ pc = "exit"
                /\ outcome = Failed(Error("missing", variables[i].name))
                /\ variables[i].name \notin DOMAIN vals
                /\ idx = i - 1
                /\ \A j \in (i + 1)..Len(variables) : ~Processed(j)
                /\ \A k \in 1..Len(calls) : calls[k].fn # "get_default_for"
                /\ generated = 0 /\ spawned = <<>>

\* The first of two declarations applies and is not in the document: the run
\* failed on it and the second, which the document gives, was not processed.
C4_Witness ==
    /\ InLoad
    /\ Len(variables) = 2
    /\ JudgedApplicable(1)
    /\ DOMAIN json_map = {variables[2].name}
    /\ outcome = Failed(Error("missing", variables[1].name))

\* C5: in JSON mode, a value given for a declaration that does not apply is
\* warned about once and discarded: the mapping has no entry for it and the
\* loop goes on to the next declaration without failing.
C5_InapplicableSuppliedIgnored ==
    InLoad =>
        \A i \in 1..Len(variables) :
            (JudgedInapplicable(i) /\ variables[i].name \in DOMAIN json_map) =>
                /\ Count(warnings, Warning("only_if", variables[i].name)) = 1
                /\ variables[i].name \notin DOMAIN vals
                /\ idx >= i
                /\ pc = "exit" => outcome.error.name # variables[i].name

\* The document gives false for the first declaration and an integer for the
\* second, which applies only if the first is true: the mapping returned has
\* the first alone.
C5_Witness ==
    /\ Returned
    /\ InLoad
    /\ Len(variables) = 2
    /\ json_map = [n \in {"v1", "v2"} |-> IF n = "v1" THEN JBool(FALSE) ELSE JI64(1)]
    /\ JudgedInapplicable(2)
    /\ vals = [n \in {"v1"} |-> VBoolean(FALSE)]
    /\ warnings = <<Warning("only_if", "v2")>>

\* C6: when the root of the JSON document is not an object the run fails
\* with the input-shape error before the evaluator is called, no prompt is
\* issued, generate is not invoked and no hook is spawned.
C6_RootNotObjectFails ==
    (input.f = "json" /\ input.root # "Object") =>
        /\ pc = "exit"
        /\ outcome = Failed(Error("not_object", NoName))
        /\ calls = <<>>
        /\ prompts = <<>>
        /\ generated = 0
        /\ spawned = <<>>
        /\ ~ENABLED Next

\* The document is a top-level array.
C6_Witness ==
    /\ input = [f |-> "json", root |-> "Array"]
    /\ pc = "exit"
    /\ Len(variables) > 0

\* C7: in JSON mode, for a declaration that applies: a value that is a
\* non-integer number, null, an array or an object fails the run with an
\* error naming the declaration (one error for a number, one for null, one
\* for arrays and objects), nothing is inserted for it, no mapping is
\* returned and neither generate nor a hook runs; a string, a boolean or an
\* integer that fits an i64 is inserted as Value::String, Value::Boolean or
\* Value::Integer.
Rejected(i, kind) ==
    /\ pc = "exit"
    /\ outcome = Failed(Error(kind, variables[i].name))
    /\ variables[i].name \notin DOMAIN vals
    /\ idx = i - 1
    /\ generated = 0
    /\ spawned = <<>>
    /\ ~ENABLED Next

Inserted(i, value) ==
    /\ variables[i].name \in DOMAIN vals
    /\ vals[variables[i].name] = value
    /\ idx >= i

C7_JsonValueConversion ==
    InLoad =>
        \A i \in 1..Len(variables) :
            (JudgedApplicable(i) /\ variables[i].name \in DOMAIN json_map) =>
                LET json_value == json_map[variables[i].name]
                IN  /\ json_value.j = "String" => Inserted(i, VString(json_value.s))
                    /\ json_value.j = "Bool" => Inserted(i, VBoolean(json_value.b))
                    /\ json_value = JI64(1) => Inserted(i, VInteger(1))
                    /\ json_value = JFloat => Rejected(i, "not_integer")
                    /\ json_value = JNull => Rejected(i, "null")
                    /\ json_value \in {JArray, JObject} => Rejected(i, "nested")

\* The second declaration applies and is given a float, after the first was
\* inserted from a string.
C7_Witness ==
    /\ InLoad
    /\ Len(variables) = 2
    /\ JudgedApplicable(2)
    /\ "v2" \in DOMAIN json_map
    /\ json_map["v2"] = JFloat
    /\ vals = [n \in {"v1"} |-> VString("x")]
    /\ outcome = Failed(Error("not_integer", "v2"))

\* C8: a document that holds, under any key, a float, null, an array or an
\* object is never turned into a mapping, whether the key names a
\* declaration that applies, one that does not, or none.
Unsupported == {JFloat, JNull, JArray, JObject}
C8_UnsupportedAlwaysRejected ==
    (Returned /\ InLoad) => \A k \in DOMAIN json_map : json_map[k] \notin Unsupported

\* C9: in JSON mode every key of the document that is no declaration's name
\* is warned about exactly once (a declared key never is), never appears in
\* the mapping, and changes nothing else: the mapping returned, or the error,
\* is the one of the document without its undeclared keys.
C9_UnknownKeysOnlyWarn ==
    InLoad =>
        /\ \A k \in DOMAIN json_map :
              Count(warnings, Warning("unknown", k)) = IF k \in DeclaredNames THEN 0 ELSE 1
        /\ DOMAIN vals \subseteq DeclaredNames
        /\ LET stripped == LoadFrom(variables, Restrict(json_map, DeclaredNames), 1, EmptyMap)
           IN  /\ Returned => stripped = [ok |-> TRUE, vals |-> vals]
               /\ pc = "exit" => stripped = [ok |-> FALSE, error |-> outcome.error]

\* A mapping returned from a document with an undeclared key.
C9_Witness ==
    /\ Returned
    /\ InLoad
    /\ UndeclaredKey \in DOMAIN json_map
    /\ warnings = <<Warning("unknown", UndeclaredKey)>>
    /\ DOMAIN vals = DeclaredNames
    /\ Len(variables) = 2

\* C10: the hooks of a phase are spawned in list order, each only after the
\* one before it exited with code zero; a pre-generation hook that fails is
\* the last hook spawned, generate is not invoked and the post-generation
\* phase is not entered; a post-generation hook that fails is the last hook
\* spawned and the run ends in failure.
SpawnedOf(phase) == SelectSeq(spawned, LAMBDA e : e.hook.phase = phase)
HookFailed(k) == spawned[k].status # "zero"

C10_HookFailFast ==
    /\ \A k \in 1..Len(SpawnedOf("pre")) : SpawnedOf("pre")[k].hook = pre_gen_hooks[k]
    /\ \A k \in 1..Len(SpawnedOf("post")) : SpawnedOf("post")[k].hook = post_gen_hooks[k]
    /\ \A k \in 1..Len(spawned) :
          /\ k < Len(spawned) => ~HookFailed(k)
          /\ HookFailed(k) =>
                /\ pc = "exit"
                /\ outcome.state = "error"
                /\ ~ENABLED Next
          /\ (HookFailed(k) /\ spawned[k].hook.phase = "pre") =>
                /\ generated = 0
                /\ post_gen_hooks = <<>>
                /\ SpawnedOf("post") = <<>>

\* Two pre-generation hooks, the first exits non-zero.
C10_Witness ==
    /\ Len(pre_gen_hooks) = 2
    /\ spawned = <<[hook |-> pre_gen_hooks[1], status |-> "nonzero"]>>
    /\ pc = "exit"

\* C11: whenever a hook fails, by exiting non-zero or by not being spawned at
\* all, the failure try_main returns names that hook.
C11_FailureNamesHook ==
    \A k \in 1..Len(spawned) :
        HookFailed(k) =>
            /\ outcome.state = "error"
            /\ outcome.error.name = spawned[k].hook.name

Banners == {"Running pre-gen hooks...", "Running post-gen hooks..."}
PrintedSet == {printed[k] : k \in 1..Len(printed)}
HookNamesOf(list) == {list[k].name : k \in 1..Len(list)}

\* C12: with run_hooks false no hook of either phase is spawned and no banner
\* or hook name is printed; with run_hooks true a phase whose list is empty
\* spawns nothing and prints no banner.  Either way try_main goes on to
\* generate, and the other phase runs all its hooks in a run that succeeds.
C12_SkippedPhaseIsSilent ==
    /\ (cli.run_hooks.read /\ ~cli.run_hooks.v) =>
          /\ spawned = <<>>
          /\ PrintedSet \subseteq {"Everything done, ready to go!"}
    /\ pre_gen_hooks = <<>> =>
          /\ SpawnedOf("pre") = <<>>
          /\ "Running pre-gen hooks..." \notin PrintedSet
    /\ post_gen_hooks = <<>> =>
          /\ SpawnedOf("post") = <<>>
          /\ "Running post-gen hooks..." \notin PrintedSet
    /\ (cli.run_hooks.read /\ (~cli.run_hooks.v \/ pre_gen_hooks = <<>>)) =>
          \/ pc = "generate" /\ generated = 0
          \/ generated = 1
    /\ (cli.run_hooks.read /\ cli.run_hooks.v /\ outcome = Succeeded) =>
          /\ generated = 1
          /\ Len(SpawnedOf("pre")) = Len(pre_gen_hooks)
          /\ Len(SpawnedOf("post")) = Len(post_gen_hooks)
    /\ (cli.run_hooks.read /\ ~cli.run_hooks.v /\ generated = 1 /\ pc = "exit"
          /\ outcome.state = "error") => outcome.error.kind \in {"generate", "get_hooks"}

\* A run with hooks disabled and two hooks in each list, which succeeds.
C12_Witness ==
    /\ outcome = Succeeded
    /\ cli.run_hooks = Flag(FALSE)
    /\ Len(pre_gen_hooks) = 2
    /\ Len(post_gen_hooks) = 2
    /\ generated = 1
    /\ spawned = <<>>
    /\ printed = <<"Everything done, ready to go!">>

\* ask_questions is running, has returned, or has failed, and the record of
\* what it did is still there.
InAsk ==
    /\ entered = <<"ask_questions">>
    /\ \/ pc \in {"ask", "resolved"}
       \/ pc = "exit" /\ outcome.state = "error"
            /\ outcome.error.kind \in {"evaluator", "prompt"}
Asked == SelectSeq(calls, LAMBDA e : e.fn = "should_ask_variable")
Defaulted == SelectSeq(calls, LAMBDA e : e.fn = "get_default_for")
DefaultCallsFor(i) == {k \in 1..Len(Defaulted) : Defaulted[k].name = variables[i].name}
PromptsFor(i) == {k \in 1..Len(prompts) : prompts[k].name = variables[i].name}

\* C13: with no_input and no input file no prompt primitive is invoked;
\* should_ask_variable is called once for each declaration, in declaration
\* order, and for each declaration it judges applicable get_default_for is
\* called once, with the values resolved so far, and what it returns is the
\* value inserted, as it is: also when the declaration has a validation
\* pattern the default does not match.
C13_AutomaticTakesDefaults ==
    (InAsk /\ cli.no_input) =>
        /\ prompts = <<>>
        /\ outcome.state = "error" => outcome.error.kind = "evaluator"
        /\ Len(Asked) \in {idx, idx + 1}
        /\ Returned => Len(Asked) = Len(variables)
        /\ \A k \in 1..Len(Asked) : Asked[k].name = variables[k].name
        /\ \A i \in 1..idx :
              LET n == variables[i].name
              IN  /\ JudgedInapplicable(i) => DefaultCallsFor(i) = {} /\ n \notin DOMAIN vals
                  /\ JudgedApplicable(i) =>
                        /\ Cardinality(DefaultCallsFor(i)) = 1
                        /\ n \in DOMAIN vals
                        /\ \A k \in DefaultCallsFor(i) :
                              /\ Defaulted[k].vals = Restrict(vals, NamesBefore(i))
                              /\ Defaulted[k].result = Ok(vals[n])

\* Two declarations resolved from their defaults; the second has a validation
\* pattern, and its default, rendered from the first, does not match it.
C13_Witness ==
    /\ Returned
    /\ entered = <<"ask_questions">>
    /\ cli.no_input
    /\ Len(variables) = 2
    /\ variables[2].validation.some
    /\ DOMAIN vals = {"v1", "v2"}
    /\ vals["v2"] = VString("a")
    /\ "a" \notin variables[2].validation.matches
    /\ Len(Defaulted) = 2

\* C14: a mapping returned by ask_questions (prompting or not) or by
\* load_values_from_json_file, written out as a JSON object and given to
\* load_values_from_json_file as the input file of the same template, is
\* accepted, and the mapping returned for it is the same mapping.
C14_JsonRoundTrip ==
    Returned =>
        LET file == JsonRoot("Object", ToJsonMap(vals))
            root == AsObject(file)
        IN  /\ root.ok
            /\ LoadFrom(variables, root.v, 1, EmptyMap) = [ok |-> TRUE, vals |-> vals]

\* A mapping from the prompts that holds a Boolean and an Integer, the
\* second declaration depending on the first.
C14_Witness ==
    /\ Returned
    /\ entered = <<"ask_questions">>
    /\ ~cli.no_input
    /\ DOMAIN vals = {"v1", "v2"}
    /\ vals["v1"] = VBoolean(TRUE)
    /\ vals["v2"] = VInteger(2)
    /\ ToJsonMap(vals) = [n \in {"v1", "v2"} |-> IF n = "v1" THEN JBool(TRUE) ELSE JI64(2)]

\* The declaration at position i has a choice set, was judged applicable and
\* the loop has gone past it.
ChoiceResolved(i) ==
    /\ i <= idx
    /\ variables[i].choices.some
    /\ variables[i].choices.of # {}
    /\ JudgedApplicable(i)

NamesAfter(i) == {variables[k].name : k \in (i + 1)..Len(variables)}
\* The run is over with the failure met at declaration i: nothing was inserted
\* for it, the loop never went past it, no mapping was returned, and neither
\* generate nor a hook has run or will run.
Propagated(i, kind) ==
    /\ Rejected(i, kind)
    /\ ~Returned
    /\ \A k \in 1..Len(calls) : calls[k].name \notin NamesAfter(i)
    /\ \A k \in 1..Len(prompts) : prompts[k].name \notin NamesAfter(i)

\* C16: a call to should_ask_variable or get_default_for that fails, in either
\* resolution loop, and a prompt that fails, is the last thing the loop does:
\* it is not called again, try_main returns the failure, naming the
\* declaration, and Propagated holds.
C16_FailurePropagates ==
    /\ \A k \in 1..Len(calls) :
          calls[k].result = Failure =>
              /\ k = Len(calls)
              /\ PromptsFor(Position(calls[k].name)) = {}
              /\ Propagated(Position(calls[k].name), "evaluator")
    /\ \A k \in 1..Len(prompts) :
          prompts[k].answer = Failure =>
              /\ k = Len(prompts)
              /\ calls[Len(calls)] =
                    Call("get_default_for", variables[idx + 1],
                         vals, calls[Len(calls)].result)
              /\ Propagated(Position(prompts[k].name), "prompt")

\* The prompt for the second declaration fails after the first was answered.
C16_Witness ==
    /\ pc = "exit"
    /\ outcome = Failed(Error("prompt", "v2"))
    /\ DOMAIN vals = {"v1"}
    /\ Len(prompts) = 2
    /\ prompts[1].answer # Failure
    /\ prompts[2].answer = Failure
    /\ prompts[2].name = "v2"

\* C17: ask_questions with no_input has one result for a template: any two
\* runs of it return the same mapping, or fail with the same error, and the
\* mapping a run returns is that result.
C17_AutomaticIsDeterministic ==
    (entered = <<"ask_questions">> /\ cli.no_input) =>
        LET runs == AskAll(variables, 1, EmptyMap, TRUE)
        IN  /\ \A r1, r2 \in runs : r1 = r2
            /\ Returned => runs = {[ok |-> TRUE, vals |-> vals]}
            /\ (pc = "exit" /\ outcome.state = "error" /\ outcome.error.kind = "evaluator") =>
                  runs = {[ok |-> FALSE, error |-> outcome.error]}

\* A run from the defaults of two declarations: a choice, and a default
\* rendered from it.
C17_Witness ==
    /\ Returned
    /\ entered = <<"ask_questions">>
    /\ cli.no_input
    /\ Len(variables) = 2
    /\ variables[1].choices.some
    /\ variables[2].default.d = "rendered"
    /\ vals = [n \in {"v1", "v2"} |-> VString("a")]
    /\ AskAll(variables, 1, EmptyMap, TRUE) = {[ok |-> TRUE, vals |-> vals]}

\* C18: with both an input file and no_input try_main fails at once: neither
\* resolution function is entered, the file is not read, the evaluator is not
\* called, nothing is prompted, printed, generated or spawned.  With any other
\* flags exactly one of the two functions is entered, the one the input file
\* flag selects, and the other never is.
C18_ModeDispatch ==
    /\ Len(entered) <= 1
    /\ pc = "resolve" => entered = <<>>
    /\ (pc # "resolve" /\ cli.input_file /\ cli.no_input) =>
          /\ pc = "exit"
          /\ outcome = Failed(Error("conflict", NoName))
          /\ entered = <<>>
          /\ input = NotRead
          /\ json_map = NoMap
          /\ vals = EmptyMap
          /\ calls = <<>>
          /\ prompts = <<>>
          /\ warnings = <<>>
          /\ printed = <<>>
          /\ spawned = <<>>
          /\ generated = 0
          /\ ~ENABLED Next
    /\ (pc # "resolve" /\ cli.input_file /\ ~cli.no_input) =>
          /\ entered = <<"load_values_from_json_file">>
          /\ input # NotRead
          /\ prompts = <<>>
    /\ (pc # "resolve" /\ ~cli.input_file) =>
          /\ entered = <<"ask_questions">>
          /\ input = NotRead
          /\ json_map = NoMap
          /\ warnings = <<>>

\* Both flags given for a template of two declarations: the run is over.
C18_Witness ==
    /\ cli.input_file
    /\ cli.no_input
    /\ Len(variables) = 2
    /\ pc = "exit"
    /\ outcome = Failed(Error("conflict", NoName))
    /\ entered = <<>>

\* A hook list, each hook spawned once, in order, and exited with code zero.
AllZero(list) == [k \in 1..Len(list) |-> [hook |-> list[k], status |-> "zero"]]

\* C19: generate is invoked at most once, only when the resolution loop has
\* gone through all the declarations and, with hooks enabled, every
\* pre-generation hook has been spawned, in list order, and has exited with
\* code zero.  A post-generation hook is spawned only after generate has
\* succeeded.  In a run that succeeds with hooks enabled every hook of both
\* lists has been spawned exactly once, the pre-generation hooks in list order
\* first and the post-generation hooks in list order after them.
C19_PhaseOrder ==
    /\ generated \in {0, 1}
    /\ (generated = 1 \/ pc = "generate") =>
          /\ idx = Len(variables)
          /\ Len(entered) = 1
          /\ cli.run_hooks.read
          /\ cli.run_hooks.v => SpawnedOf("pre") = AllZero(pre_gen_hooks)
    /\ generated = 0 => SpawnedOf("post") = <<>>
    /\ SpawnedOf("post") # <<>> =>
          /\ generated = 1
          /\ outcome.state = "error" => outcome.error.kind = "hook_exit" \/ outcome.error.kind = "hook_spawn"
          /\ spawned = SpawnedOf("pre") \o SpawnedOf("post")
    /\ (outcome = Succeeded /\ cli.run_hooks.v) =>
          /\ generated = 1
          /\ spawned = AllZero(pre_gen_hooks) \o AllZero(post_gen_hooks)

\* A run with two hooks in each list that succeeds.
C19_Witness ==
    /\ outcome = Succeeded
    /\ cli.run_hooks = Flag(TRUE)
    /\ Len(pre_gen_hooks) = 2
    /\ Len(post_gen_hooks) = 2
    /\ Len(spawned) = 4
    /\ generated = 1
    /\ Len(variables) = 2

\* The value ask_questions makes of the answer of a prompt.
AnswerValue(p) ==
    CASE p.fn = "ask_choices" -> p.answer.v
      [] p.fn = "ask_bool" -> VBoolean(p.answer.v)
      [] p.fn = "ask_string" -> VString(p.answer.v)
      [] p.fn = "ask_integer" -> VInteger(p.answer.v)

\* C20: when ask_questions prompts, a declaration judged inapplicable gets no
\* get_default_for call, no prompt and no entry; a declaration judged
\* applicable that the loop has gone past got one get_default_for call, one
\* prompt and one entry.  The prompt is ask_choices exactly when the default
\* is a String and the declaration has choices, ask_string, with the
\* declaration's validation pattern, exactly when the default is a String
\* and there are no choices, ask_bool exactly when it is a Boolean and
\* ask_integer exactly when it is an Integer; the prompt is given the default,
\* and the entry is the answer of the prompt.
C20_InteractivePrompts ==
    (InAsk /\ ~cli.no_input) =>
        \A i \in 1..idx :
            LET var == variables[i]
                n == var.name
            IN  /\ JudgedInapplicable(i) =>
                      /\ DefaultCallsFor(i) = {}
                      /\ PromptsFor(i) = {}
                      /\ n \notin DOMAIN vals
                /\ JudgedApplicable(i) =>
                      /\ Cardinality(DefaultCallsFor(i)) = 1
                      /\ Cardinality(PromptsFor(i)) = 1
                      /\ n \in DOMAIN vals
                      /\ \A d \in DefaultCallsFor(i), k \in PromptsFor(i) :
                            LET default == Defaulted[d].result.v
                                q == prompts[k]
                            IN  /\ q.fn = "ask_choices" <=>
                                      (default.t = "String" /\ var.choices.some)
                                /\ q.fn = "ask_string" <=>
                                      (default.t = "String" /\ ~var.choices.some)
                                /\ q.fn = "ask_bool" <=> default.t = "Boolean"
                                /\ q.fn = "ask_integer" <=> default.t = "Integer"
                                /\ q.args = CASE q.fn = "ask_choices" -> <<default, var.choices.of>>
                                              [] q.fn = "ask_string" -> <<default.v, var.validation>>
                                              [] OTHER -> <<default.v>>
                                /\ q.answer.ok
                                /\ vals[n] = AnswerValue(q)
                                /\ (q.fn = "ask_string" /\ var.validation.some) =>
                                      vals[n].v \in var.validation.matches

\* A Boolean answered FALSE against its default TRUE, and a second
\* declaration that depends on it and is therefore skipped.
C20_Witness ==
    /\ Returned
    /\ InAsk
    /\ ~cli.no_input
    /\ Len(variables) = 2
    /\ variables[1].default = Literal(VBoolean(TRUE))
    /\ variables[2].only_if = OnlyIf("v1", VBoolean(TRUE))
    /\ vals = [n \in {"v1"} |-> VBoolean(FALSE)]
    /\ Len(prompts) = 1
    /\ prompts[1].fn = "ask_bool"
    /\ JudgedInapplicable(2)

====
